---- MODULE Spec2Model ----
(***************************************************************************)
(* Model of the browser UI of the Video Voice Description Generator:       *)
(*   - the upload page   (HomePage,   src/frontend/src/pages/HomePage.js   *)
(*                        lines 10-187)                                    *)
(*   - the editor page   (EditorPage, the complete variant that the same   *)
(*                        file holds at lines 295-751)                     *)
(*                                                                         *)
(* Execution model.  The UI is single threaded: every event handler, every *)
(* promise continuation and every timer callback runs to completion, and   *)
(* React commits the state it set (render, effect cleanups, effects)       *)
(* before the next event is handled.  One action of the model is therefore *)
(* one handler or continuation together with the commit that follows it.   *)
(* A closure reads the state of the render that created it: an async       *)
(* handler keeps what it read when it was called in its task record.       *)
(***************************************************************************)
EXTENDS Integers, Sequences, FiniteSets, TLC

(***************************************************************************)
(* Bounds of the model.                                                    *)
(***************************************************************************)
MaxUploads == 2        \* clicks on "Upload and Analyze" in one behaviour
MaxDropped == 1        \* files carried by one drop / picker event
MaxScenes == 2         \* scenes the server returns for a project
MaxClips == 2          \* Audio elements created (playAudio calls) in one behaviour
MaxProjectChanges == 1 \* changes of the :projectId route parameter in one behaviour
MaxMounts == 2         \* EditorPage instances mounted in one behaviour
MaxExports == 2        \* clicks on the confirm-export button in one behaviour
MaxTicks == 22         \* times one progress timer fires (500 ms each) in one behaviour

VARIABLES
  \* ---- upload page (HomePage) ----
  route,          \* <<"home">> or <<"editor", projectId>> (react-router location)
  selectedFile,   \* useState(null)
  uploading,      \* useState(false)
  dragActive,     \* useState(false)
  uploadTask,     \* the running handleUpload call: its position and locals
  uploadClicks,   \* number of handleUpload calls so far (bounded)
  instance,       \* which EditorPage instance is (or was last) on screen: 1, 2, ..
  \* ---- editor page (EditorPage): component state ----
  project,        \* useState(null)
  scenes,         \* useState([])
  loading,        \* useState(true)
  editingScene,   \* useState(null): a scene id, or NoScene
  editText,       \* useState('')
  saving,         \* useState(false)
  currentAudio,   \* useState(null): a clip (index into clips), or NoAudio
  \* ---- editor page: what lives outside the component state ----
  effectAudio,    \* currentAudio as the [projectId] effect's cleanup closure holds it
  saveTasks,      \* the handleSaveScene calls awaiting their PUT, with what they captured
  loads,          \* the loadProject calls awaiting Promise.all
  projectChanges, \* number of projectId changes so far (bounded)
  clips,          \* the Audio elements created so far, in order of creation
  pendingEv,      \* media events and promise rejections queued for delivery
  mediaCalls,     \* the calls on Audio elements made by the latest handler, in order
  \* ---- editor page: export ----
  exporting,        \* useState(false)
  showExportDialog, \* useState(false)
  exportFormat,     \* useState('mp4')
  exportProgress,   \* useState(0), in units of 1/Scale percent
  estimatedTime,    \* useState(0)
  exportTasks,      \* the handleExport calls that have not returned, with what they captured
  intervals,        \* the setInterval timers that are running
  closeTimers,      \* the pending 1500 ms setTimeout callbacks: export and instance that set them
  exportClicks,     \* number of handleExport calls so far (bounded)
  timerCalls,       \* the setInterval / clearInterval calls made by the latest handler
  downloaded,       \* the file names the latest handler started a download under
  \* ---- observation of one step ----
  netLog,         \* upload page: every request issued and response delivered, in order
  sent,           \* the requests issued by the latest handler, in order
  toasts,         \* the notifications raised by the latest handler
  lastOp          \* the latest event of the upload page and its arguments

uploadVars == <<selectedFile, uploading, dragActive, uploadTask, uploadClicks>>
homeVars == <<route, uploadVars>>
obsVars  == <<netLog, sent, toasts, lastOp>>
pageVars == <<project, scenes, loading, loads, projectChanges>>
editVars == <<editingScene, editText, saving, saveTasks>>
audioVars == <<currentAudio, effectAudio, clips, pendingEv, mediaCalls>>
exportVars == <<exporting, showExportDialog, exportFormat, exportProgress, estimatedTime,
                exportTasks, intervals, closeTimers, exportClicks>>
exportObs == <<timerCalls, downloaded>>
editorVars == <<instance, pageVars, editVars, audioVars, exportVars, exportObs>>
vars     == <<homeVars, editorVars, obsVars>>

(***************************************************************************)
(* Strings whose content the code inspects are sequences of characters.    *)
(***************************************************************************)
StartsWith(s, prefix) ==
  /\ Len(s) >= Len(prefix)
  /\ SubSeq(s, 1, Len(prefix)) = prefix

VideoPrefix == <<"v","i","d","e","o","/">>

\* (mutant) String.prototype.includes in place of startsWith
IsVideoTypeIncludes(type) ==
  \E i \in 1..Len(type) :
    /\ i + Len(VideoPrefix) - 1 <= Len(type)
    /\ SubSeq(type, i, i + Len(VideoPrefix) - 1) = VideoPrefix

IsVideoType(type) == StartsWith(type, VideoPrefix)

FileTypes ==
  { <<"v","i","d","e","o","/","m","p","4">>,
    <<"v","i","d","e","o","/">>,
    <<"v","i","d","e","o">>,
    <<"i","m","a","g","e","/","p","n","g">>,
    <<"a","/","v","i","d","e","o","/">>,
    <<>> }

Files == [type : FileTypes]
NoFile == [null |-> TRUE]   \* the null of useState(null)

RECURSIVE SeqsUpTo(_, _)
SeqsUpTo(S, n) ==
  IF n = 0 THEN { <<>> }
  ELSE LET shorter == SeqsUpTo(S, n - 1)
       IN  shorter \cup { Append(q, x) : q \in { r \in shorter : Len(r) = n - 1 }, x \in S }

FileLists == SeqsUpTo(Files, MaxDropped)

ProjectIds == {"p1", "p2"}

Toast(level, msg) == [level |-> level, msg |-> msg]
Req(method, path, body) == [dir |-> "req", method |-> method, path |-> path, body |-> body]
Resp(path, ok, data) == [dir |-> "resp", path |-> path, ok |-> ok, data |-> data]

IdleUpload == [pc |-> "idle"]

(***************************************************************************)
(* HomePage                                                                *)
(***************************************************************************)
OnHome == route = <<"home">>

\* handleDrag: dragenter/dragover set the flag, dragleave clears it
HandleDrag(type) ==
  /\ OnHome
  /\ dragActive' = IF type \in {"dragenter", "dragover"} THEN TRUE
                   ELSE IF type = "dragleave" THEN FALSE
                   ELSE dragActive
  /\ toasts' = <<>>
  /\ sent' = <<>>
  /\ lastOp' = [op |-> "handleDrag", type |-> type]
  /\ UNCHANGED <<route, selectedFile, uploading, uploadTask, uploadClicks, netLog, editorVars>>

\* the body shared by handleDrop and handleFileSelect: files[0] is taken or refused
AcceptFile(files) ==
  IF Len(files) >= 1
  THEN IF IsVideoType(files[1].type)
       THEN /\ selectedFile' = files[1]
            /\ toasts' = <<>>
       ELSE /\ selectedFile' = selectedFile
            /\ toasts' = << Toast("error", "Please upload a video file") >>
  ELSE /\ selectedFile' = selectedFile
       /\ toasts' = <<>>

\* files[0], or null when the list is empty
FirstOf(files) == IF Len(files) >= 1 THEN files[1] ELSE NoFile

HandleDrop(files) ==
  /\ OnHome
  /\ dragActive' = FALSE
  /\ AcceptFile(files)
  /\ sent' = <<>>
  /\ lastOp' = [op |-> "handleDrop", file |-> FirstOf(files)]
  /\ UNCHANGED <<route, uploading, uploadTask, uploadClicks, netLog, editorVars>>

HandleFileSelect(files) ==
  /\ OnHome
  /\ AcceptFile(files)
  /\ sent' = <<>>
  /\ lastOp' = [op |-> "handleFileSelect", file |-> FirstOf(files)]
  /\ UNCHANGED <<route, uploading, dragActive, uploadTask, uploadClicks, netLog, editorVars>>

\* handleUpload up to its first await.  The button exists only while a file is
\* selected and is disabled while uploading.
HandleUpload ==
  /\ OnHome
  /\ selectedFile # NoFile
  /\ ~uploading
  /\ uploadClicks < MaxUploads
  /\ uploadClicks' = uploadClicks + 1
  /\ IF selectedFile = NoFile
     THEN /\ toasts' = << Toast("error", "Please select a video file") >>
          /\ sent' = <<>>
          /\ UNCHANGED <<uploading, uploadTask, netLog>>
     ELSE /\ uploading' = TRUE
          /\ uploadTask' = [pc |-> "awaitUpload", file |-> selectedFile]
          /\ netLog' = Append(netLog, Req("POST", <<"upload">>, selectedFile))
          /\ sent' = << Req("POST", <<"upload">>, selectedFile) >>
          /\ toasts' = <<>>
  /\ lastOp' = [op |-> "handleUpload"]
  /\ UNCHANGED <<route, selectedFile, dragActive, editorVars>>

\* POST /upload answered with a project id: the analysis request follows at once
UploadOk(id) ==
  /\ uploadTask.pc = "awaitUpload"
  /\ uploadTask' = [pc |-> "awaitAnalyze", file |-> uploadTask.file, projectId |-> id]
  /\ netLog' = netLog \o << Resp(<<"upload">>, TRUE, id), Req("POST", <<"analyze", id>>, "none") >>
  /\ sent' = << Req("POST", <<"analyze", id>>, "none") >>
  /\ toasts' = << Toast("success", "Video uploaded successfully!"),
                  Toast("info", "Analyzing video for scene cuts...") >>
  /\ lastOp' = [op |-> "uploadOk", projectId |-> id]
  /\ UNCHANGED <<route, selectedFile, uploading, dragActive, uploadClicks, editorVars>>

\* (mutant) the catch of handleUpload also dropping the selection
UploadCatchClearsFile(path) ==
  /\ netLog' = Append(netLog, Resp(path, FALSE, "none"))
  /\ sent' = <<>>
  /\ toasts' = << Toast("error", "Failed to upload video") >>
  /\ uploading' = FALSE
  /\ uploadTask' = IdleUpload
  /\ selectedFile' = NoFile
  /\ UNCHANGED <<route, dragActive, uploadClicks, editorVars>>

\* catch + finally of handleUpload, reached from either await
UploadCatch(path) ==
  /\ netLog' = Append(netLog, Resp(path, FALSE, "none"))
  /\ sent' = <<>>
  /\ toasts' = << Toast("error", "Failed to upload video") >>
  /\ uploading' = FALSE
  /\ uploadTask' = IdleUpload
  /\ UNCHANGED <<route, selectedFile, dragActive, uploadClicks, editorVars>>

UploadFail ==
  /\ uploadTask.pc = "awaitUpload"
  /\ UploadCatch(<<"upload">>)
  /\ lastOp' = [op |-> "uploadFail"]

\* (mutant) navigate placed where it also runs when the analysis failed
AnalyzeFailNavigates ==
  /\ uploadTask.pc = "awaitAnalyze"
  /\ netLog' = Append(netLog, Resp(<<"analyze", uploadTask.projectId>>, FALSE, "none"))
  /\ sent' = <<>>
  /\ toasts' = << Toast("error", "Failed to upload video") >>
  /\ route' = <<"editor", uploadTask.projectId>>
  /\ uploading' = FALSE
  /\ uploadTask' = IdleUpload
  /\ lastOp' = [op |-> "analyzeFail"]
  /\ UNCHANGED <<selectedFile, dragActive, uploadClicks, editorVars>>

AnalyzeFail ==
  /\ uploadTask.pc = "awaitAnalyze"
  /\ UploadCatch(<<"analyze", uploadTask.projectId>>)
  /\ lastOp' = [op |-> "analyzeFail"]

\* POST /analyze answered: navigate, then finally
AnalyzeOk ==
  /\ uploadTask.pc = "awaitAnalyze"
  /\ netLog' = Append(netLog, Resp(<<"analyze", uploadTask.projectId>>, TRUE, "none"))
  /\ sent' = <<>>
  /\ toasts' = << Toast("success", "Analysis complete!") >>
  /\ route' = <<"editor", uploadTask.projectId>>
  /\ uploading' = FALSE
  /\ uploadTask' = IdleUpload
  /\ lastOp' = [op |-> "analyzeOk", projectId |-> uploadTask.projectId]
  /\ UNCHANGED <<selectedFile, dragActive, uploadClicks, editorVars>>

(***************************************************************************)
(* EditorPage: data                                                        *)
(***************************************************************************)
NoProject == [null |-> TRUE]
NoScene   == <<>>              \* editingScene === null
NoAudio   == 0                 \* currentAudio === null
Texts     == {"a", "b", "c"}   \* what a description or the textarea can hold

Mounted   == route[1] = "editor"
\* a handler of EditorPage instance inst can still set state: React drops the
\* updates of an instance that has unmounted
Live(inst) == Mounted /\ inst = instance
ProjectId == route[2]          \* useParams().projectId

\* what GET /projects/{id} and GET /projects/{id}/scenes answer
ServerProject(pid) == [id |-> pid, original_filename |-> <<"video_", pid>>]
ServerScene(pid, i) ==
  [ id             |-> <<pid, i>>,
    timestamp      |-> i,
    description    |-> IF i % 2 = 1 THEN "a" ELSE "b",
    thumbnail_path |-> <<"thumbs", pid, <<"t", i>> >>,
    audio_path     |-> <<"audio", pid, <<"s", i>> >> ]
ServerScenes(pid, n) == [i \in 1..n |-> ServerScene(pid, i)]

\* audioPath.split('/').pop(): a path is its sequence of segments
LastSegment(path) == path[Len(path)]
AudioUrl(pid, audioPath) == <<"api", "audio", pid, LastSegment(audioPath)>>

(***************************************************************************)
(* Audio elements.  st: "starting" (play() called, its promise pending),   *)
(* "playing", "paused", "ended" (played to the end, not paused), "failed". *)
(* A media state m is [clips, ev, calls]: the elements, the queued events, *)
(* and the calls made on elements so far by the running handler; a write   *)
(* of currentTime = 0 is recorded there as a "seek0" call.                 *)
(***************************************************************************)
Media(cl, ev, calls) == [clips |-> cl, ev |-> ev, calls |-> calls]

\* HTMLMediaElement.pause(): a pending play() promise is rejected (AbortError)
DoPause(m, c) ==
  LET st == m.clips[c].st IN
  [ clips |-> IF st \in {"starting", "playing", "ended"}
              THEN [m.clips EXCEPT ![c].st = "paused"] ELSE m.clips,
    ev    |-> IF st = "starting" THEN m.ev \cup { <<c, "reject">> } ELSE m.ev,
    calls |-> Append(m.calls, <<"pause", c>>) ]

\* currentTime = 0: an element that ended without being paused plays again
DoSeek0(m, c) ==
  [ clips |-> [m.clips EXCEPT ![c].st = IF @ = "ended" THEN "playing" ELSE @],
    ev    |-> m.ev,
    calls |-> Append(m.calls, <<"seek0", c>>) ]

\* new Audio(url)
DoNew(m, url) ==
  [ clips |-> Append(m.clips, [st |-> "paused", src |-> url, inst |-> instance]),
    ev    |-> m.ev,
    calls |-> Append(m.calls, <<"new", Len(m.clips) + 1>>) ]

\* audio.play()
DoPlay(m, c) ==
  [ clips |-> [m.clips EXCEPT ![c].st = "starting"],
    ev    |-> m.ev,
    calls |-> Append(m.calls, <<"play", c>>) ]

\* if (currentAudio) { currentAudio.pause(); currentAudio.currentTime = 0; }
StopTracked(m, tracked) ==
  IF tracked # NoAudio THEN DoSeek0(DoPause(m, tracked), tracked) ELSE m

\* cleanup of useEffect(..., [currentAudio]), run by the commit that changes
\* currentAudio from old to new, and by the unmount
AudioEffectCleanup(m, old) ==
  IF old # NoAudio THEN DoPause(m, old) ELSE m

CommitAudio(m, old, new) ==
  IF new # old THEN AudioEffectCleanup(m, old) ELSE m

\* (mutant) playAudio starting the new clip before it stops the tracked one
PlayAudioCallsStartFirst(m, tracked, url) ==
  LET created == DoNew(m, url)
      started == DoPlay(created, Len(created.clips))
  IN  StopTracked(started, tracked)

\* the calls of playAudio on Audio elements, in order
PlayAudioCalls(m, tracked, url) ==
  LET stopped == StopTracked(m, tracked)
      created == DoNew(stopped, url)
  IN  DoPlay(created, Len(created.clips))

SetMedia(m) ==
  /\ clips' = m.clips
  /\ pendingEv' = m.ev
  /\ mediaCalls' = m.calls

\* a setCurrentAudio(v) followed by the commit; setState of an unmounted
\* component does nothing
SetCurrentAudio(m, v) ==
  IF Mounted
  THEN /\ currentAudio' = v
       /\ SetMedia(CommitAudio(m, currentAudio, v))
  ELSE /\ currentAudio' = currentAudio
       /\ SetMedia(m)

Now == Media(clips, pendingEv, <<>>)

(***************************************************************************)
(* EditorPage: loading                                                     *)
(***************************************************************************)
LoadRequests(pid) ==
  << Req("GET", <<"projects", pid>>, "none"),
     Req("GET", <<"projects", pid, "scenes">>, "none") >>

\* a loadProject call awaiting Promise.all of its two GETs
NewLoad(pid, seq) == [pid |-> pid, seq |-> seq, inst |-> instance]

\* both GETs of a loadProject call are answered (the scene list with n scenes):
\* Promise.all is fulfilled, the rest of the try block runs, then finally
LoadOk(t, n) ==
  /\ t \in loads
  /\ loads' = loads \ {t}
  /\ IF Live(t.inst)
     THEN /\ project' = ServerProject(t.pid)
          /\ scenes' = ServerScenes(t.pid, n)
          /\ loading' = FALSE
     ELSE UNCHANGED <<project, scenes, loading>>
  /\ sent' = <<>>
  /\ toasts' = <<>>
  /\ mediaCalls' = <<>>
  /\ timerCalls' = <<>>
  /\ downloaded' = <<>>
  /\ UNCHANGED <<instance, exportVars>>
  /\ UNCHANGED <<uploadVars, lastOp, netLog, route, projectChanges, editVars, currentAudio,
                 effectAudio, clips, pendingEv>>

\* (mutant) a load that keeps the project when only the scene list failed
LoadFailKeepsProject(t, part) ==
  /\ t \in loads
  /\ part \in {"project", "scenes"}
  /\ loads' = loads \ {t}
  /\ sent' = <<>>
  /\ toasts' = << Toast("error", "Failed to load project") >>
  /\ loading' = IF Live(t.inst) THEN FALSE ELSE loading
  /\ project' = IF Live(t.inst) /\ part = "scenes" THEN ServerProject(t.pid) ELSE project
  /\ mediaCalls' = <<>>
  /\ timerCalls' = <<>>
  /\ downloaded' = <<>>
  /\ UNCHANGED <<instance, exportVars>>
  /\ UNCHANGED <<uploadVars, lastOp, netLog, route, scenes, projectChanges,
                 editVars, currentAudio, effectAudio, clips, pendingEv>>

\* (mutant) a loadProject without its finally
LoadFailKeepsLoading(t, part) ==
  /\ t \in loads
  /\ part \in {"project", "scenes"}
  /\ loads' = loads \ {t}
  /\ sent' = <<>>
  /\ toasts' = << Toast("error", "Failed to load project") >>
  /\ loading' = loading
  /\ mediaCalls' = <<>>
  /\ timerCalls' = <<>>
  /\ downloaded' = <<>>
  /\ UNCHANGED <<instance, exportVars>>
  /\ UNCHANGED <<uploadVars, lastOp, netLog, route, project, scenes, projectChanges,
                 editVars, currentAudio, effectAudio, clips, pendingEv>>

\* one of the two GETs (part) fails: Promise.all is rejected at once, whatever
\* becomes of the other GET; catch and finally run
LoadFail(t, part) ==
  /\ t \in loads
  /\ part \in {"project", "scenes"}
  /\ loads' = loads \ {t}
  /\ sent' = <<>>
  /\ toasts' = << Toast("error", "Failed to load project") >>
  /\ loading' = IF Live(t.inst) THEN FALSE ELSE loading
  /\ mediaCalls' = <<>>
  /\ timerCalls' = <<>>
  /\ downloaded' = <<>>
  /\ UNCHANGED <<instance, exportVars>>
  /\ UNCHANGED <<uploadVars, lastOp, netLog, route, project, scenes, projectChanges,
                 editVars, currentAudio, effectAudio, clips, pendingEv>>

\* the :projectId parameter changes under the mounted editor (a history
\* traversal between two editor entries): the [projectId] effect is cleaned up
\* with the currentAudio its closure holds, and runs again
ChangeProject(pid) ==
  /\ Mounted
  /\ pid # ProjectId
  /\ projectChanges < MaxProjectChanges
  /\ projectChanges' = projectChanges + 1
  /\ route' = <<"editor", pid>>
  /\ SetMedia(StopTracked(Now, effectAudio))
  /\ effectAudio' = currentAudio
  /\ loads' = loads \cup { NewLoad(pid, projectChanges + 1) }
  /\ sent' = LoadRequests(pid)
  /\ toasts' = <<>>
  /\ timerCalls' = <<>>
  /\ downloaded' = <<>>
  /\ UNCHANGED <<instance, exportVars>>
  /\ UNCHANGED <<uploadVars, lastOp, netLog, project, scenes, loading, editVars,
                 currentAudio>>

\* (mutant) an unmount whose [currentAudio] effect has no cleanup
UnmountKeepsPlaying ==
  /\ Mounted
  /\ route' = <<"home">>
  /\ SetMedia(StopTracked(Now, effectAudio))
  /\ sent' = <<>>
  /\ toasts' = <<>>
  /\ timerCalls' = <<>>
  /\ downloaded' = <<>>
  /\ UNCHANGED <<instance, exportVars>>
  /\ UNCHANGED <<uploadVars, lastOp, netLog, pageVars, editVars, currentAudio,
                 effectAudio>>

\* the editor unmounts (Back button, or any other navigation away): the
\* cleanups of both effects run, in the order the effects are declared
Unmount ==
  /\ Mounted
  /\ route' = <<"home">>
  /\ SetMedia(AudioEffectCleanup(StopTracked(Now, effectAudio), currentAudio))
  /\ sent' = <<>>
  /\ toasts' = <<>>
  /\ timerCalls' = <<>>
  /\ downloaded' = <<>>
  /\ UNCHANGED <<instance, exportVars>>
  /\ UNCHANGED <<uploadVars, lastOp, netLog, pageVars, editVars, currentAudio,
                 effectAudio>>

\* an editor is opened again after the previous one unmounted (navigate to
\* /editor/:projectId, or the browser's Forward): a new EditorPage instance
\* starts from the useState initial values and its [projectId] effect calls
\* loadProject.  The requests, timers and clips of earlier instances are
\* still there; their handlers no longer set any state.
Remount(pid) ==
  /\ ~Mounted
  /\ instance < MaxMounts
  /\ instance' = instance + 1
  /\ route' = <<"editor", pid>>
  /\ project' = NoProject
  /\ scenes' = <<>>
  /\ loading' = TRUE
  /\ editingScene' = NoScene
  /\ editText' = ""
  /\ saving' = FALSE
  /\ currentAudio' = NoAudio
  /\ effectAudio' = NoAudio
  /\ exporting' = FALSE
  /\ showExportDialog' = FALSE
  /\ exportFormat' = "mp4"
  /\ exportProgress' = 0
  /\ estimatedTime' = 0
  /\ loads' = loads \cup { [NewLoad(pid, projectChanges) EXCEPT !.inst = instance + 1] }
  /\ sent' = LoadRequests(pid)
  /\ toasts' = <<>>
  /\ mediaCalls' = <<>>
  /\ timerCalls' = <<>>
  /\ downloaded' = <<>>
  /\ UNCHANGED <<uploadVars, lastOp, netLog, projectChanges, saveTasks, clips, pendingEv,
                 exportTasks, intervals, closeTimers, exportClicks>>

(***************************************************************************)
(* EditorPage: audio playback                                              *)
(***************************************************************************)
Interactive == Mounted /\ ~loading     \* the scene cards are rendered

\* (mutant) playAudio without its setCurrentAudio(audio)
PlayAudioUntracked(i) ==
  /\ Interactive
  /\ i \in 1..Len(scenes)
  /\ editingScene # scenes[i].id
  /\ Len(clips) < MaxClips
  /\ SetMedia(DoPlay(DoNew(Now, AudioUrl(ProjectId, scenes[i].audio_path)), Len(clips) + 1))
  /\ sent' = <<>>
  /\ toasts' = <<>>
  /\ timerCalls' = <<>>
  /\ downloaded' = <<>>
  /\ UNCHANGED <<instance, exportVars>>
  /\ UNCHANGED <<uploadVars, lastOp, netLog, route, pageVars, editVars, currentAudio,
                 effectAudio>>

\* playAudio(scene.audio_path), from the play button of a card not in edit mode
PlayAudio(i) ==
  /\ Interactive
  /\ i \in 1..Len(scenes)
  /\ editingScene # scenes[i].id
  /\ Len(clips) < MaxClips
  /\ LET m == PlayAudioCalls(Now, currentAudio, AudioUrl(ProjectId, scenes[i].audio_path))
     IN  SetCurrentAudio(m, Len(m.clips))
  /\ sent' = <<>>
  /\ toasts' = <<>>
  /\ timerCalls' = <<>>
  /\ downloaded' = <<>>
  /\ UNCHANGED <<instance, exportVars>>
  /\ UNCHANGED <<uploadVars, lastOp, netLog, route, pageVars, editVars, effectAudio>>

\* (mutant) handleEditScene without its `if (currentAudio)` block
HandleEditSceneKeepsAudio(i) ==
  /\ Interactive
  /\ i \in 1..Len(scenes)
  /\ editingScene # scenes[i].id
  /\ editingScene' = scenes[i].id
  /\ editText' = scenes[i].description
  /\ mediaCalls' = <<>>
  /\ sent' = <<>>
  /\ toasts' = <<>>
  /\ timerCalls' = <<>>
  /\ downloaded' = <<>>
  /\ UNCHANGED <<instance, exportVars>>
  /\ UNCHANGED <<uploadVars, lastOp, netLog, route, pageVars, saving, saveTasks,
                 effectAudio, currentAudio, clips, pendingEv>>

\* handleEditScene(scene), from the edit button of a card not in edit mode
HandleEditScene(i) ==
  /\ Interactive
  /\ i \in 1..Len(scenes)
  /\ editingScene # scenes[i].id
  /\ SetCurrentAudio(StopTracked(Now, currentAudio), NoAudio)
  /\ editingScene' = scenes[i].id
  /\ editText' = scenes[i].description
  /\ sent' = <<>>
  /\ toasts' = <<>>
  /\ timerCalls' = <<>>
  /\ downloaded' = <<>>
  /\ UNCHANGED <<instance, exportVars>>
  /\ UNCHANGED <<uploadVars, lastOp, netLog, route, pageVars, saving, saveTasks, effectAudio>>

\* ---- what the browser does to an element ----
\* the play() promise of a starting clip resolves: nothing is attached to it
ClipStarts(c) ==
  /\ c \in 1..Len(clips)
  /\ clips[c].st = "starting"
  /\ clips' = [clips EXCEPT ![c].st = "playing"]
  /\ sent' = <<>>
  /\ toasts' = <<>>
  /\ mediaCalls' = <<>>
  /\ timerCalls' = <<>>
  /\ downloaded' = <<>>
  /\ UNCHANGED <<instance, exportVars>>
  /\ UNCHANGED <<uploadVars, lastOp, netLog, route, pageVars, editVars, currentAudio,
                 effectAudio, pendingEv>>

\* playback reaches the end: the ended event is queued
ClipEnds(c) ==
  /\ c \in 1..Len(clips)
  /\ clips[c].st = "playing"
  /\ clips' = [clips EXCEPT ![c].st = "ended"]
  /\ pendingEv' = pendingEv \cup { <<c, "ended">> }
  /\ sent' = <<>>
  /\ toasts' = <<>>
  /\ mediaCalls' = <<>>
  /\ timerCalls' = <<>>
  /\ downloaded' = <<>>
  /\ UNCHANGED <<instance, exportVars>>
  /\ UNCHANGED <<uploadVars, lastOp, netLog, route, pageVars, editVars, currentAudio,
                 effectAudio>>

\* the resource cannot be fetched or decoded: the error event is queued, and a
\* pending play() promise is rejected
ClipFails(c) ==
  /\ c \in 1..Len(clips)
  /\ clips[c].st \in {"starting", "playing", "paused"}
  /\ clips' = [clips EXCEPT ![c].st = "failed"]
  /\ pendingEv' = pendingEv \cup { <<c, "error">> }
                  \cup (IF clips[c].st = "starting" THEN { <<c, "reject">> } ELSE {})
  /\ sent' = <<>>
  /\ toasts' = <<>>
  /\ mediaCalls' = <<>>
  /\ timerCalls' = <<>>
  /\ downloaded' = <<>>
  /\ UNCHANGED <<instance, exportVars>>
  /\ UNCHANGED <<uploadVars, lastOp, netLog, route, pageVars, editVars, currentAudio,
                 effectAudio>>

\* the browser refuses to start playback (NotAllowedError): the promise is rejected
ClipRefused(c) ==
  /\ c \in 1..Len(clips)
  /\ clips[c].st = "starting"
  /\ clips' = [clips EXCEPT ![c].st = "paused"]
  /\ pendingEv' = pendingEv \cup { <<c, "reject">> }
  /\ sent' = <<>>
  /\ toasts' = <<>>
  /\ mediaCalls' = <<>>
  /\ timerCalls' = <<>>
  /\ downloaded' = <<>>
  /\ UNCHANGED <<instance, exportVars>>
  /\ UNCHANGED <<uploadVars, lastOp, netLog, route, pageVars, editVars, currentAudio,
                 effectAudio>>

\* ---- the observers playAudio attached ----
\* audio.onended
OnEnded(c) ==
  /\ <<c, "ended">> \in pendingEv
  /\ IF Live(clips[c].inst)
     THEN SetCurrentAudio(Media(clips, pendingEv \ { <<c, "ended">> }, <<>>), NoAudio)
     ELSE /\ currentAudio' = currentAudio
          /\ SetMedia(Media(clips, pendingEv \ { <<c, "ended">> }, <<>>))
  /\ sent' = <<>>
  /\ toasts' = <<>>
  /\ timerCalls' = <<>>
  /\ downloaded' = <<>>
  /\ UNCHANGED <<instance, exportVars>>
  /\ UNCHANGED <<uploadVars, lastOp, netLog, route, pageVars, editVars, effectAudio>>

\* audio.onerror
OnError(c) ==
  /\ <<c, "error">> \in pendingEv
  /\ IF Live(clips[c].inst)
     THEN SetCurrentAudio(Media(clips, pendingEv \ { <<c, "error">> }, <<>>), NoAudio)
     ELSE /\ currentAudio' = currentAudio
          /\ SetMedia(Media(clips, pendingEv \ { <<c, "error">> }, <<>>))
  /\ sent' = <<>>
  /\ toasts' = << Toast("error", "Failed to play audio") >>
  /\ timerCalls' = <<>>
  /\ downloaded' = <<>>
  /\ UNCHANGED <<instance, exportVars>>
  /\ UNCHANGED <<uploadVars, lastOp, netLog, route, pageVars, editVars, effectAudio>>

\* audio.play().catch(...)
PlayCatch(c) ==
  /\ <<c, "reject">> \in pendingEv
  /\ IF Live(clips[c].inst)
     THEN SetCurrentAudio(Media(clips, pendingEv \ { <<c, "reject">> }, <<>>), NoAudio)
     ELSE /\ currentAudio' = currentAudio
          /\ SetMedia(Media(clips, pendingEv \ { <<c, "reject">> }, <<>>))
  /\ sent' = <<>>
  /\ toasts' = << Toast("error", "Failed to play audio") >>
  /\ timerCalls' = <<>>
  /\ downloaded' = <<>>
  /\ UNCHANGED <<instance, exportVars>>
  /\ UNCHANGED <<uploadVars, lastOp, netLog, route, pageVars, editVars, effectAudio>>

(***************************************************************************)
(* EditorPage: editing a description                                       *)
(***************************************************************************)
\* the card of scenes[i] shows the textarea with its save and cancel buttons
InEditMode(i) ==
  /\ Interactive
  /\ i \in 1..Len(scenes)
  /\ editingScene = scenes[i].id

\* edit-textarea onChange
SetEditText(i, text) ==
  /\ InEditMode(i)
  /\ text # editText
  /\ editText' = text
  /\ sent' = <<>>
  /\ toasts' = <<>>
  /\ mediaCalls' = <<>>
  /\ timerCalls' = <<>>
  /\ downloaded' = <<>>
  /\ UNCHANGED <<instance, exportVars>>
  /\ UNCHANGED <<uploadVars, lastOp, netLog, route, pageVars, editingScene, saving,
                 saveTasks, currentAudio, effectAudio, clips, pendingEv>>

\* (mutant) a cancel that stores the draft as a save would
CancelEditSaves(i) ==
  /\ InEditMode(i)
  /\ editingScene' = NoScene
  /\ scenes' = [scenes EXCEPT ![i].description = editText]
  /\ sent' = << [dir |-> "req", method |-> "PUT", path |-> <<"scenes", scenes[i].id>>,
                 body |-> [description |-> editText]] >>
  /\ toasts' = <<>>
  /\ mediaCalls' = <<>>
  /\ timerCalls' = <<>>
  /\ downloaded' = <<>>
  /\ UNCHANGED <<instance, exportVars>>
  /\ UNCHANGED <<uploadVars, lastOp, netLog, route, project, loading, loads,
                 projectChanges, editText, saving, saveTasks, currentAudio,
                 effectAudio, clips, pendingEv>>

\* cancel-button onClick: setEditingScene(null)
CancelEdit(i) ==
  /\ InEditMode(i)
  /\ editingScene' = NoScene
  /\ sent' = <<>>
  /\ toasts' = <<>>
  /\ mediaCalls' = <<>>
  /\ timerCalls' = <<>>
  /\ downloaded' = <<>>
  /\ UNCHANGED <<instance, exportVars>>
  /\ UNCHANGED <<uploadVars, lastOp, netLog, route, pageVars, editText, saving,
                 saveTasks, currentAudio, effectAudio, clips, pendingEv>>

SavePath(sceneId) == <<"scenes", sceneId>>

\* (mutant) a save button without disabled={saving}
HandleSaveSceneNotDisabled(i) ==
  /\ InEditMode(i)
  /\ saving' = TRUE
  /\ saveTasks' = saveTasks \cup
       { [sceneId |-> scenes[i].id, editText |-> editText, scenes |-> scenes,
          inst |-> instance] }
  /\ sent' = << Req("PUT", SavePath(scenes[i].id), [description |-> editText]) >>
  /\ toasts' = <<>>
  /\ mediaCalls' = <<>>
  /\ timerCalls' = <<>>
  /\ downloaded' = <<>>
  /\ UNCHANGED <<instance, exportVars>>
  /\ UNCHANGED <<uploadVars, lastOp, netLog, route, pageVars, editingScene, editText,
                 currentAudio, effectAudio, clips, pendingEv>>

\* handleSaveScene(scene.id) up to its await; the button is disabled while saving.
\* The call keeps the editText and the scenes of the render it was made in.
HandleSaveScene(i) ==
  /\ InEditMode(i)
  /\ ~saving
  /\ saving' = TRUE
  /\ saveTasks' = saveTasks \cup
       { [sceneId |-> scenes[i].id, editText |-> editText, scenes |-> scenes,
          inst |-> instance] }
  /\ sent' = << Req("PUT", SavePath(scenes[i].id), [description |-> editText]) >>
  /\ toasts' = <<>>
  /\ mediaCalls' = <<>>
  /\ timerCalls' = <<>>
  /\ downloaded' = <<>>
  /\ UNCHANGED <<instance, exportVars>>
  /\ UNCHANGED <<uploadVars, lastOp, netLog, route, pageVars, editingScene, editText,
                 currentAudio, effectAudio, clips, pendingEv>>

\* scenes.map(s => s.id === sceneId ? { ...s, description: editText } : s)
MapScenes(list, sceneId, text) ==
  [k \in 1..Len(list) |->
     IF list[k].id = sceneId THEN [list[k] EXCEPT !.description = text] ELSE list[k]]

\* (mutant) a save whose local update reads the draft as it is at the response
SaveOkStoresDraft(t) ==
  /\ t \in saveTasks
  /\ saveTasks' = saveTasks \ {t}
  /\ sent' = <<>>
  /\ toasts' = << Toast("success", "Scene updated successfully!") >>
  /\ IF Live(t.inst)
     THEN /\ scenes' = MapScenes(t.scenes, t.sceneId, editText)
          /\ editingScene' = NoScene
          /\ saving' = FALSE
     ELSE UNCHANGED <<scenes, editingScene, saving>>
  /\ mediaCalls' = <<>>
  /\ timerCalls' = <<>>
  /\ downloaded' = <<>>
  /\ UNCHANGED <<instance, exportVars>>
  /\ UNCHANGED <<uploadVars, lastOp, netLog, route, project, loading, loads,
                 projectChanges, editText, currentAudio, effectAudio,
                 clips, pendingEv>>

\* the PUT is answered: the rest of the try block, then finally
SaveOk(t) ==
  /\ t \in saveTasks
  /\ saveTasks' = saveTasks \ {t}
  /\ sent' = <<>>
  /\ toasts' = << Toast("success", "Scene updated successfully!") >>
  /\ IF Live(t.inst)
     THEN /\ scenes' = MapScenes(t.scenes, t.sceneId, t.editText)
          /\ editingScene' = NoScene
          /\ saving' = FALSE
     ELSE UNCHANGED <<scenes, editingScene, saving>>
  /\ mediaCalls' = <<>>
  /\ timerCalls' = <<>>
  /\ downloaded' = <<>>
  /\ UNCHANGED <<instance, exportVars>>
  /\ UNCHANGED <<uploadVars, lastOp, netLog, route, project, loading, loads,
                 projectChanges, editText, currentAudio, effectAudio,
                 clips, pendingEv>>

\* (mutant) a failed save that leaves edit mode
SaveFailLeavesEdit(t) ==
  /\ t \in saveTasks
  /\ saveTasks' = saveTasks \ {t}
  /\ sent' = <<>>
  /\ toasts' = << Toast("error", "Failed to save scene") >>
  /\ saving' = IF Live(t.inst) THEN FALSE ELSE saving
  /\ editingScene' = IF Live(t.inst) THEN NoScene ELSE editingScene
  /\ mediaCalls' = <<>>
  /\ timerCalls' = <<>>
  /\ downloaded' = <<>>
  /\ UNCHANGED <<instance, exportVars>>
  /\ UNCHANGED <<uploadVars, lastOp, netLog, route, pageVars, editText, currentAudio,
                 effectAudio, clips, pendingEv>>

\* the PUT fails: catch, then finally
SaveFail(t) ==
  /\ t \in saveTasks
  /\ saveTasks' = saveTasks \ {t}
  /\ sent' = <<>>
  /\ toasts' = << Toast("error", "Failed to save scene") >>
  /\ saving' = IF Live(t.inst) THEN FALSE ELSE saving
  /\ mediaCalls' = <<>>
  /\ timerCalls' = <<>>
  /\ downloaded' = <<>>
  /\ UNCHANGED <<instance, exportVars>>
  /\ UNCHANGED <<uploadVars, lastOp, netLog, route, pageVars, editingScene, editText,
                 currentAudio, effectAudio, clips, pendingEv>>

(***************************************************************************)
(* EditorPage: export                                                      *)
(***************************************************************************)
Formats == {"mp4", "avi", "mov"}

\* exportFormat.toUpperCase()
ToUpperCase(f) == CASE f = "mp4" -> "MP4" [] f = "avi" -> "AVI" [] f = "mov" -> "MOV"

\* `Exporting video as ${...}...`
ExportingText(upper) ==
  CASE upper = "MP4" -> "Exporting video as MP4..."
    [] upper = "AVI" -> "Exporting video as AVI..."
    [] upper = "MOV" -> "Exporting video as MOV..."

\* Math.max(5, (scenes.length * 2) + 3)
EstimatedSeconds(n) == IF (n * 2) + 3 > 5 THEN (n * 2) + 3 ELSE 5

SlowFrom == 85     \* if (prev >= 85)
Cap == 95          \* Math.min(prev + 1, 95)
Complete == 100    \* setExportProgress(100)

RECURSIVE GCD(_, _)
GCD(a, b) == IF b = 0 THEN a ELSE GCD(b, a % b)

LCM(a, b) == (a * b) \div GCD(a, b)

\* exportProgress is a number of percent that is a multiple of 85 / (2 * est)
\* or of 1; it is kept as an integer number of 1/Scale percent, Scale being a
\* common multiple of the 2 * est the scene lists of the model give
RECURSIVE ScaleUpTo(_)
ScaleUpTo(n) ==
  IF n = 0 THEN 2 * EstimatedSeconds(0)
  ELSE LCM(2 * EstimatedSeconds(n), ScaleUpTo(n - 1))

Scale == ScaleUpTo(MaxScenes)

Pct(x) == x * Scale

Min(a, b) == IF a < b THEN a ELSE b

\* the outcomes of `prev >= 85`.  The numbers are IEEE doubles: when
\* 85 / (2 * est) is not a dyadic fraction (est is odd: when est does not
\* divide 85) each addition rounds, and the sum of 2 * est of them is 85 or a
\* neighbouring double on either side, depending on est.  Both outcomes of the
\* comparison are kept for that sum; any other value is far from 85.
ReadsSlow(prev, est) ==
  IF prev = Pct(SlowFrom) /\ SlowFrom % est # 0
  THEN {TRUE, FALSE}
  ELSE {prev >= Pct(SlowFrom)}

\* (mutant) a slow branch without its Math.min(..., 95)
ProgressUpdateUncapped(prev, est, slow) ==
  IF slow
  THEN prev + Pct(1)
  ELSE prev + (Pct(SlowFrom) \div (est * 2))

\* (mutant) a slow branch that does not advance
ProgressUpdateStalls(prev, est, slow) ==
  IF slow
  THEN Min(prev, Pct(Cap))
  ELSE prev + (Pct(SlowFrom) \div (est * 2))

\* the updater passed to setExportProgress by the timer callback
ProgressUpdate(prev, est, slow) ==
  IF slow
  THEN Min(prev + Pct(1), Pct(Cap))
  ELSE prev + (Pct(SlowFrom) \div (est * 2))

\* JavaScript values an error can carry
Undefined == [t |-> "undefined"]
JsObject == [t |-> "object"]
JsString(text, length) == [t |-> "string", text |-> text, length |-> length]
Falsy(x) == x = Undefined \/ (x.t = "string" /\ x.length = 0)
Or(a, b) == IF Falsy(a) THEN b ELSE a

\* error.response?.data?.detail
ErrorDetails ==
  { Undefined, JsObject, JsString("", 0), JsString("No audio for scene 2", 20),
    JsString("detail of 100 characters", 100), JsString("detail of 101 characters", 101) }

\* error.message
ErrorMessages ==
  { JsString("", 0), JsString("Network Error", 13),
    JsString("message of 101 characters", 101) }

\* error.response?.data?.detail || error.message || 'Failed to export video'
ErrorMessage(detail, message) ==
  Or(Or(detail, message), JsString("Failed to export video", 22))

\* (mutant) a displayMessage that replaces a message of 100 characters too
DisplayMessageFrom100(m) ==
  IF m.t = "string" /\ m.length >= 100
  THEN "Video export failed. Please check if all scenes have valid audio."
  ELSE IF m.t = "string" THEN m.text ELSE "[object Object]"

\* typeof errorMessage === 'string' && errorMessage.length > 100 ? ... : errorMessage
DisplayMessage(m) ==
  IF m.t = "string" /\ m.length > 100
  THEN "Video export failed. Please check if all scenes have valid audio."
  ELSE IF m.t = "string" THEN m.text ELSE "[object Object]"

\* `exported_${project?.original_filename || 'video'}.${exportFormat}`
FileName(proj, format) ==
  << "exported_", IF proj = NoProject THEN <<"video">> ELSE proj.original_filename,
     ".", format >>

ExportPath(pid) == <<"export", pid>>
DownloadUrl(pid, format) == <<"exports", pid, format>>

\* clearInterval(progressInterval)
ClearInterval(id) == { x \in intervals : x.id # id }
ClearCalls(id) ==
  << [op |-> "clearInterval", timer |-> id,
      fired |-> IF \E x \in intervals : x.id = id
                THEN (CHOOSE x \in intervals : x.id = id).fired ELSE 0] >>

\* export-button onClick
OpenExportDialog ==
  /\ Interactive
  /\ ~showExportDialog
  /\ showExportDialog' = TRUE
  /\ sent' = <<>>
  /\ toasts' = <<>>
  /\ mediaCalls' = <<>>
  /\ timerCalls' = <<>>
  /\ downloaded' = <<>>
  /\ UNCHANGED <<uploadVars, lastOp, netLog, route, instance, pageVars, editVars,
                 currentAudio, effectAudio, clips, pendingEv, exporting, exportFormat, exportProgress,
                 estimatedTime, exportTasks, intervals, closeTimers, exportClicks>>

\* cancel-export-button onClick (disabled while exporting), or a click on the
\* overlay: !exporting && setShowExportDialog(false)
CloseExportDialog ==
  /\ Interactive
  /\ showExportDialog
  /\ ~exporting
  /\ showExportDialog' = FALSE
  /\ sent' = <<>>
  /\ toasts' = <<>>
  /\ mediaCalls' = <<>>
  /\ timerCalls' = <<>>
  /\ downloaded' = <<>>
  /\ UNCHANGED <<uploadVars, lastOp, netLog, route, instance, pageVars, editVars,
                 currentAudio, effectAudio, clips, pendingEv, exporting, exportFormat, exportProgress,
                 estimatedTime, exportTasks, intervals, closeTimers, exportClicks>>

\* format radio onChange (disabled while exporting)
SetExportFormat(f) ==
  /\ Interactive
  /\ showExportDialog
  /\ ~exporting
  /\ f # exportFormat
  /\ exportFormat' = f
  /\ sent' = <<>>
  /\ toasts' = <<>>
  /\ mediaCalls' = <<>>
  /\ timerCalls' = <<>>
  /\ downloaded' = <<>>
  /\ UNCHANGED <<uploadVars, lastOp, netLog, route, instance, pageVars, editVars,
                 currentAudio, effectAudio, clips, pendingEv, exporting, showExportDialog,
                 exportProgress, estimatedTime, exportTasks, intervals, closeTimers,
                 exportClicks>>

\* (mutant) a confirm-export button that is not disabled while exporting
HandleExportNotDisabled ==
  /\ Interactive
  /\ showExportDialog
  /\ exportClicks < MaxExports
  /\ exportClicks' = exportClicks + 1
  /\ exporting' = TRUE
  /\ exportProgress' = 0
  /\ estimatedTime' = EstimatedSeconds(Len(scenes))
  /\ intervals' = intervals \cup
       { [id |-> exportClicks + 1, est |-> EstimatedSeconds(Len(scenes)), fired |-> 0,
          inst |-> instance] }
  /\ timerCalls' = << [op |-> "setInterval", timer |-> exportClicks + 1, fired |-> 0] >>
  /\ toasts' = << Toast("info", ExportingText(ToUpperCase(exportFormat))) >>
  /\ sent' = << Req("POST", ExportPath(ProjectId), [format |-> exportFormat]) >>
  /\ exportTasks' = exportTasks \cup
       { [id |-> exportClicks + 1, pc |-> "post", format |-> exportFormat,
          pid |-> ProjectId, project |-> project, inst |-> instance] }
  /\ mediaCalls' = <<>>
  /\ downloaded' = <<>>
  /\ UNCHANGED <<uploadVars, lastOp, netLog, route, instance, pageVars, editVars,
                 currentAudio, effectAudio, clips, pendingEv, showExportDialog, exportFormat,
                 closeTimers>>

\* handleExport up to its first await; confirm-export-button is disabled while
\* exporting.  The call keeps the exportFormat, projectId and project of the
\* render it was made in.
HandleExport ==
  /\ Interactive
  /\ showExportDialog
  /\ ~exporting
  /\ exportClicks < MaxExports
  /\ exportClicks' = exportClicks + 1
  /\ exporting' = TRUE
  /\ exportProgress' = 0
  /\ estimatedTime' = EstimatedSeconds(Len(scenes))
  /\ intervals' = intervals \cup
       { [id |-> exportClicks + 1, est |-> EstimatedSeconds(Len(scenes)), fired |-> 0,
          inst |-> instance] }
  /\ timerCalls' = << [op |-> "setInterval", timer |-> exportClicks + 1, fired |-> 0] >>
  /\ toasts' = << Toast("info", ExportingText(ToUpperCase(exportFormat))) >>
  /\ sent' = << Req("POST", ExportPath(ProjectId), [format |-> exportFormat]) >>
  /\ exportTasks' = exportTasks \cup
       { [id |-> exportClicks + 1, pc |-> "post", format |-> exportFormat,
          pid |-> ProjectId, project |-> project, inst |-> instance] }
  /\ mediaCalls' = <<>>
  /\ downloaded' = <<>>
  /\ UNCHANGED <<uploadVars, lastOp, netLog, route, instance, pageVars, editVars,
                 currentAudio, effectAudio, clips, pendingEv, showExportDialog, exportFormat,
                 closeTimers>>

\* the setInterval callback, every 500 ms while the timer is running
Tick(t) ==
  /\ t \in intervals
  /\ t.fired < MaxTicks
  /\ intervals' = (intervals \ {t}) \cup { [t EXCEPT !.fired = @ + 1] }
  /\ IF Live(t.inst)
     THEN \E slow \in ReadsSlow(exportProgress, t.est) :
            exportProgress' = ProgressUpdate(exportProgress, t.est, slow)
     ELSE UNCHANGED exportProgress
  /\ sent' = <<>>
  /\ toasts' = <<>>
  /\ mediaCalls' = <<>>
  /\ timerCalls' = <<>>
  /\ downloaded' = <<>>
  /\ UNCHANGED <<uploadVars, lastOp, netLog, route, instance, pageVars, editVars,
                 currentAudio, effectAudio, clips, pendingEv, exporting, showExportDialog,
                 exportFormat, estimatedTime, exportTasks, closeTimers, exportClicks>>

\* (mutant) a success path that sets the auto-close timeout before the download
ExportOkClosesFirst(t) ==
  /\ t \in exportTasks
  /\ t.pc = "post"
  /\ intervals' = ClearInterval(t.id)
  /\ timerCalls' = ClearCalls(t.id)
  /\ exportProgress' = IF Live(t.inst) THEN Pct(Complete) ELSE exportProgress
  /\ exportTasks' = (exportTasks \ {t}) \cup { [t EXCEPT !.pc = "pause"] }
  /\ closeTimers' = closeTimers \cup { [id |-> t.id, inst |-> t.inst] }
  /\ sent' = <<>>
  /\ toasts' = <<>>
  /\ mediaCalls' = <<>>
  /\ downloaded' = <<>>
  /\ UNCHANGED <<uploadVars, lastOp, netLog, route, instance, pageVars, editVars,
                 currentAudio, effectAudio, clips, pendingEv, exporting, showExportDialog,
                 exportFormat, estimatedTime, exportClicks>>

\* the export POST is answered: up to the await of the 500 ms pause
ExportOk(t) ==
  /\ t \in exportTasks
  /\ t.pc = "post"
  /\ intervals' = ClearInterval(t.id)
  /\ timerCalls' = ClearCalls(t.id)
  /\ exportProgress' = IF Live(t.inst) THEN Pct(Complete) ELSE exportProgress
  /\ exportTasks' = (exportTasks \ {t}) \cup { [t EXCEPT !.pc = "pause"] }
  /\ sent' = <<>>
  /\ toasts' = <<>>
  /\ mediaCalls' = <<>>
  /\ downloaded' = <<>>
  /\ UNCHANGED <<uploadVars, lastOp, netLog, route, instance, pageVars, editVars,
                 currentAudio, effectAudio, clips, pendingEv, exporting, showExportDialog,
                 exportFormat, estimatedTime, closeTimers, exportClicks>>

\* (mutant) a catch that leaves the progress timer running
ExportFailLeaksTimer(t, detail, message) ==
  /\ t \in exportTasks
  /\ t.pc = "post"
  /\ timerCalls' = <<>>
  /\ toasts' = << Toast("error", DisplayMessage(ErrorMessage(detail, message))) >>
  /\ IF Live(t.inst)
     THEN /\ exportProgress' = 0
          /\ estimatedTime' = 0
          /\ exporting' = FALSE
     ELSE UNCHANGED <<exportProgress, estimatedTime, exporting>>
  /\ exportTasks' = exportTasks \ {t}
  /\ sent' = <<>>
  /\ mediaCalls' = <<>>
  /\ downloaded' = <<>>
  /\ UNCHANGED <<uploadVars, lastOp, netLog, route, instance, pageVars, editVars,
                 currentAudio, effectAudio, clips, pendingEv, showExportDialog, exportFormat,
                 intervals, closeTimers, exportClicks>>

\* (mutant) a catch that also closes the dialog
ExportFailClosesDialog(t, detail, message) ==
  /\ t \in exportTasks
  /\ t.pc = "post"
  /\ intervals' = ClearInterval(t.id)
  /\ timerCalls' = ClearCalls(t.id)
  /\ toasts' = << Toast("error", DisplayMessage(ErrorMessage(detail, message))) >>
  /\ IF Live(t.inst)
     THEN /\ exportProgress' = 0
          /\ estimatedTime' = 0
          /\ exporting' = FALSE
          /\ showExportDialog' = FALSE
     ELSE UNCHANGED <<exportProgress, estimatedTime, exporting, showExportDialog>>
  /\ exportTasks' = exportTasks \ {t}
  /\ sent' = <<>>
  /\ mediaCalls' = <<>>
  /\ downloaded' = <<>>
  /\ UNCHANGED <<uploadVars, lastOp, netLog, route, instance, pageVars, editVars,
                 currentAudio, effectAudio, clips, pendingEv, exportFormat, closeTimers, exportClicks>>

\* the export POST fails: the outer catch, then finally
ExportFail(t, detail, message) ==
  /\ t \in exportTasks
  /\ t.pc = "post"
  /\ intervals' = ClearInterval(t.id)
  /\ timerCalls' = ClearCalls(t.id)
  /\ toasts' = << Toast("error", DisplayMessage(ErrorMessage(detail, message))) >>
  /\ IF Live(t.inst)
     THEN /\ exportProgress' = 0
          /\ estimatedTime' = 0
          /\ exporting' = FALSE
     ELSE UNCHANGED <<exportProgress, estimatedTime, exporting>>
  /\ exportTasks' = exportTasks \ {t}
  /\ sent' = <<>>
  /\ mediaCalls' = <<>>
  /\ downloaded' = <<>>
  /\ UNCHANGED <<uploadVars, lastOp, netLog, route, instance, pageVars, editVars,
                 currentAudio, effectAudio, clips, pendingEv, showExportDialog, exportFormat,
                 closeTimers, exportClicks>>

\* the 500 ms pause is over: up to the await of fetch(downloadUrl)
AfterPause(t) ==
  /\ t \in exportTasks
  /\ t.pc = "pause"
  /\ toasts' = << Toast("success", "Starting download...") >>
  /\ sent' = << Req("GET", DownloadUrl(t.pid, t.format), "none") >>
  /\ exportTasks' = (exportTasks \ {t}) \cup { [t EXCEPT !.pc = "fetch"] }
  /\ mediaCalls' = <<>>
  /\ timerCalls' = <<>>
  /\ downloaded' = <<>>
  /\ UNCHANGED <<uploadVars, lastOp, netLog, route, instance, pageVars, editVars,
                 currentAudio, effectAudio, clips, pendingEv, exporting, showExportDialog,
                 exportFormat, exportProgress, estimatedTime, intervals, closeTimers,
                 exportClicks>>

\* what follows the inner try / catch: the 1500 ms setTimeout, then finally
AfterDownload(t) ==
  /\ t \in exportTasks
  /\ t.pc = "fetch"
  /\ exportTasks' = exportTasks \ {t}
  /\ closeTimers' = closeTimers \cup { [id |-> t.id, inst |-> t.inst] }
  /\ exporting' = IF Live(t.inst) THEN FALSE ELSE exporting
  /\ sent' = <<>>
  /\ mediaCalls' = <<>>
  /\ timerCalls' = <<>>
  /\ UNCHANGED <<uploadVars, lastOp, netLog, route, instance, pageVars, editVars,
                 currentAudio, effectAudio, clips, pendingEv, showExportDialog, exportFormat,
                 exportProgress, estimatedTime, intervals, exportClicks>>

\* the file is fetched and read as a blob: the link is clicked
DownloadOk(t) ==
  /\ AfterDownload(t)
  /\ downloaded' = << FileName(t.project, t.format) >>
  /\ toasts' = << Toast("success", "Download started!") >>

\* (mutant) a failed download handled as a failed export: the indicator and
\* the estimate are reset
DownloadFailResets(t) ==
  /\ t \in exportTasks
  /\ t.pc = "fetch"
  /\ exportTasks' = exportTasks \ {t}
  /\ closeTimers' = closeTimers \cup { [id |-> t.id, inst |-> t.inst] }
  /\ IF Live(t.inst)
     THEN /\ exporting' = FALSE
          /\ exportProgress' = 0
          /\ estimatedTime' = 0
     ELSE UNCHANGED <<exporting, exportProgress, estimatedTime>>
  /\ sent' = <<>>
  /\ mediaCalls' = <<>>
  /\ timerCalls' = <<>>
  /\ downloaded' = <<>>
  /\ toasts' = << Toast("error", "Download failed. Please try again.") >>
  /\ UNCHANGED <<uploadVars, lastOp, netLog, route, instance, pageVars, editVars,
                 currentAudio, effectAudio, clips, pendingEv, showExportDialog, exportFormat,
                 intervals, exportClicks>>

\* fetch rejects, answers with !ok, or blob() rejects: the inner catch
DownloadFail(t) ==
  /\ AfterDownload(t)
  /\ downloaded' = <<>>
  /\ toasts' = << Toast("error", "Download failed. Please try again.") >>

\* the 1500 ms setTimeout callback k
AutoClose(k) ==
  /\ k \in closeTimers
  /\ closeTimers' = closeTimers \ {k}
  /\ IF Live(k.inst)
     THEN /\ showExportDialog' = FALSE
          /\ exportProgress' = 0
          /\ estimatedTime' = 0
     ELSE UNCHANGED <<showExportDialog, exportProgress, estimatedTime>>
  /\ sent' = <<>>
  /\ toasts' = <<>>
  /\ mediaCalls' = <<>>
  /\ timerCalls' = <<>>
  /\ downloaded' = <<>>
  /\ UNCHANGED <<uploadVars, lastOp, netLog, route, instance, pageVars, editVars,
                 currentAudio, effectAudio, clips, pendingEv, exporting, exportFormat, exportTasks,
                 intervals, exportClicks>>

(***************************************************************************)
(* Specifications                                                          *)
(***************************************************************************)
\* the useState initial values of an editor
EditorState ==
  /\ instance = 1
  /\ project = NoProject
  /\ scenes = <<>>
  /\ loading = TRUE
  /\ editingScene = NoScene
  /\ editText = ""
  /\ saving = FALSE
  /\ saveTasks = {}
  /\ currentAudio = NoAudio
  /\ effectAudio = NoAudio
  /\ projectChanges = 0
  /\ clips = <<>>
  /\ pendingEv = {}
  /\ mediaCalls = <<>>
  /\ exporting = FALSE
  /\ showExportDialog = FALSE
  /\ exportFormat = "mp4"
  /\ exportProgress = 0
  /\ estimatedTime = 0
  /\ exportTasks = {}
  /\ intervals = {}
  /\ closeTimers = {}
  /\ exportClicks = 0
  /\ timerCalls = <<>>
  /\ downloaded = <<>>

HomeState ==
  /\ selectedFile = NoFile
  /\ uploading = FALSE
  /\ dragActive = FALSE
  /\ uploadTask = IdleUpload
  /\ uploadClicks = 0

\* the upload page is open
InitHome ==
  /\ route = <<"home">>
  /\ HomeState
  /\ EditorState
  /\ loads = {}
  /\ netLog = <<>>
  /\ sent = <<>>
  /\ toasts = <<>>
  /\ lastOp = [op |-> "mount"]

\* the editor of project p1 has mounted: its [projectId] effect has called loadProject
InitEditor ==
  /\ route = <<"editor", "p1">>
  /\ HomeState
  /\ EditorState
  /\ loads = { NewLoad("p1", 0) }
  /\ netLog = <<>>
  /\ sent = LoadRequests("p1")
  /\ toasts = <<>>
  /\ lastOp = [op |-> "mount"]

NextHome ==
  \/ \E type \in {"dragenter", "dragover", "dragleave"} : HandleDrag(type)
  \/ \E files \in FileLists : HandleDrop(files)
  \/ \E files \in FileLists : HandleFileSelect(files)
  \/ HandleUpload
  \/ \E id \in ProjectIds : UploadOk(id)
  \/ UploadFail
  \/ AnalyzeOk
  \/ AnalyzeFail

SpecHome == InitHome /\ [][NextHome]_vars

\* what every mounted editor goes through: the answers to its first load, and unmounting
NextMount ==
  \/ \E t \in loads, n \in 0..MaxScenes : LoadOk(t, n)
  \/ \E t \in loads, part \in {"project", "scenes"} : LoadFail(t, part)
  \/ Unmount

\* audio playback: play requests, edit requests, and what the clips do
NextAudio ==
  \/ NextMount
  \/ \E i \in 1..MaxScenes : PlayAudio(i)
  \/ \E i \in 1..MaxScenes : HandleEditScene(i)
  \/ \E c \in 1..MaxClips : ClipStarts(c)
  \/ \E c \in 1..MaxClips : ClipEnds(c)
  \/ \E c \in 1..MaxClips : ClipFails(c)
  \/ \E c \in 1..MaxClips : ClipRefused(c)
  \/ \E c \in 1..MaxClips : OnEnded(c)
  \/ \E c \in 1..MaxClips : OnError(c)
  \/ \E c \in 1..MaxClips : PlayCatch(c)

SpecAudio == InitEditor /\ [][NextAudio]_vars

\* editing: edit, type, save, cancel, the answers to the saves, and a change of
\* the project shown
NextEdit ==
  \/ NextMount
  \/ \E pid \in ProjectIds : ChangeProject(pid)
  \/ \E i \in 1..MaxScenes : HandleEditScene(i)
  \/ \E i \in 1..MaxScenes, text \in Texts : SetEditText(i, text)
  \/ \E i \in 1..MaxScenes : CancelEdit(i)
  \/ \E i \in 1..MaxScenes : HandleSaveScene(i)
  \/ \E t \in saveTasks : SaveOk(t)
  \/ \E t \in saveTasks : SaveFail(t)

SpecEdit == InitEditor /\ [][NextEdit]_vars

\* editing a loaded project: as NextEdit, the project shown staying the same
NextEditLoaded ==
  \/ NextMount
  \/ \E i \in 1..MaxScenes : HandleEditScene(i)
  \/ \E i \in 1..MaxScenes, text \in Texts : SetEditText(i, text)
  \/ \E i \in 1..MaxScenes : CancelEdit(i)
  \/ \E i \in 1..MaxScenes : HandleSaveScene(i)
  \/ \E t \in saveTasks : SaveOk(t)
  \/ \E t \in saveTasks : SaveFail(t)

SpecEditLoaded == InitEditor /\ [][NextEditLoaded]_vars

\* export: the dialog, the export, its timers and its answers
NextExport ==
  \/ NextMount
  \/ OpenExportDialog
  \/ CloseExportDialog
  \/ \E f \in Formats : SetExportFormat(f)
  \/ HandleExport
  \/ \E t \in intervals : Tick(t)
  \/ \E t \in exportTasks : ExportOk(t)
  \/ \E t \in exportTasks, detail \in ErrorDetails, message \in ErrorMessages :
       ExportFail(t, detail, message)
  \/ \E t \in exportTasks : AfterPause(t)
  \/ \E t \in exportTasks : DownloadOk(t)
  \/ \E t \in exportTasks : DownloadFail(t)
  \/ \E k \in closeTimers : AutoClose(k)

SpecExport == InitEditor /\ [][NextExport]_vars


\* export requests across editors: the dialog, the export and its answers,
\* unmounting, and opening the editor of p1 again after it has unmounted.  The
\* progress timer's callback is left out: it sets exportProgress only, which no
\* guard and no request of these actions reads; a failed export carries one
\* error (the message shown plays no part here).
NextRemount ==
  \/ NextMount
  \/ Remount("p1")
  \/ OpenExportDialog
  \/ CloseExportDialog
  \/ \E f \in Formats : SetExportFormat(f)
  \/ HandleExport
  \/ \E t \in exportTasks : ExportOk(t)
  \/ \E t \in exportTasks : ExportFail(t, Undefined, JsString("Network Error", 13))
  \/ \E t \in exportTasks : AfterPause(t)
  \/ \E t \in exportTasks : DownloadOk(t)
  \/ \E t \in exportTasks : DownloadFail(t)
  \/ \E k \in closeTimers : AutoClose(k)

SpecRemount == InitEditor /\ [][NextRemount]_vars

\* either page has been opened
InitBusy == InitHome \/ InitEditor

\* every operation that has a busy flag, on both pages: upload and analysis,
\* load, save, export, each with its answers.  The editor stays mounted, and
\* typing, format choice and the progress timer's callback, which touch no
\* busy flag, are left out.
NextBusy ==
  \/ NextHome
  \/ \E t \in loads, n \in 0..MaxScenes : LoadOk(t, n)
  \/ \E t \in loads, part \in {"project", "scenes"} : LoadFail(t, part)
  \/ \E i \in 1..MaxScenes : HandleEditScene(i)
  \/ \E i \in 1..MaxScenes : HandleSaveScene(i)
  \/ \E t \in saveTasks : SaveOk(t)
  \/ \E t \in saveTasks : SaveFail(t)
  \/ OpenExportDialog
  \/ HandleExport
  \/ \E t \in exportTasks : ExportOk(t)
  \/ \E t \in exportTasks : ExportFail(t, Undefined, JsString("Network Error", 13))
  \/ \E t \in exportTasks : AfterPause(t)
  \/ \E t \in exportTasks : DownloadOk(t)
  \/ \E t \in exportTasks : DownloadFail(t)
  \/ \E k \in closeTimers : AutoClose(k)

SpecBusy == InitBusy /\ [][NextBusy]_vars

(***************************************************************************)
(* Properties of the upload page                                           *)
(***************************************************************************)
ErrorShown(ts) == \E i \in 1..Len(ts) : ts[i].level = "error"
RequestsIn(log) == { i \in 1..Len(log) : log[i].dir = "req" }

\* what "the declared media type starts with video/" means, stated on its own
DeclaresVideo(type) ==
  /\ Len(type) >= 6
  /\ type[1] = "v" /\ type[2] = "i" /\ type[3] = "d"
  /\ type[4] = "e" /\ type[5] = "o" /\ type[6] = "/"

FileEvent(op) ==
  /\ op.op \in {"handleDrop", "handleFileSelect"}
  /\ op.file # NoFile

\* C3: a dropped or picked file whose declared type does not start with "video/"
\* is refused with an error notification, leaves selectedFile as it was, and
\* issues no network request.
C3_NonVideoRejected ==
  [][ (FileEvent(lastOp') /\ ~DeclaresVideo(lastOp'.file.type))
      => /\ toasts' = << Toast("error", "Please upload a video file") >>
         /\ selectedFile' = selectedFile
         /\ netLog' = netLog ]_vars

\* a non-video file was dropped while another file was selected: it is still selected
C3_Witness ==
  /\ lastOp.op = "handleDrop"
  /\ lastOp.file = [type |-> <<"a","/","v","i","d","e","o","/">>]
  /\ selectedFile \in Files
  /\ ErrorShown(toasts)

IsUploadOk(e)     == e.dir = "resp" /\ e.path = <<"upload">> /\ e.ok
IsAnalyzeReq(e)   == e.dir = "req" /\ Len(e.path) = 2 /\ e.path[1] = "analyze"
IsAnalyzeOk(e, d) == e.dir = "resp" /\ e.path = <<"analyze", d>> /\ e.ok

\* C4: every successful upload response is followed at once by one analyze
\* request for the id it returned, no analyze request has another origin, and the
\* location is the editor of an id only when the analyze request for that id,
\* issued after the upload response, has been answered successfully.
C4_AnalyzeThenNavigate ==
  /\ \A i \in 1..Len(netLog) :
       IsUploadOk(netLog[i]) =>
         /\ i < Len(netLog)
         /\ netLog[i + 1] = Req("POST", <<"analyze", netLog[i].data>>, "none")
  /\ \A j \in 1..Len(netLog) :
       IsAnalyzeReq(netLog[j]) =>
         /\ j > 1
         /\ IsUploadOk(netLog[j - 1])
         /\ netLog[j - 1].data = netLog[j].path[2]
  /\ route # <<"home">> =>
       \E i \in 1..Len(netLog) :
         /\ IsUploadOk(netLog[i])
         /\ route = <<"editor", netLog[i].data>>
         /\ Len(netLog) = i + 2
         /\ IsAnalyzeOk(netLog[i + 2], netLog[i].data)

\* the second upload of a behaviour reached the editor of p2
C4_Witness ==
  /\ route = <<"editor", "p2">>
  /\ lastOp.op = "analyzeOk"
  /\ Cardinality({ i \in 1..Len(netLog) : IsAnalyzeReq(netLog[i]) }) = 2

\* C5: a failed upload or analyze request shows an error, does not navigate,
\* keeps the selected file, re-enables the upload control and issues nothing;
\* while no upload is running only a click on the upload control issues a request.
C5_FailureStaysOnUpload ==
  [][ /\ lastOp'.op \in {"uploadFail", "analyzeFail"} =>
           /\ ErrorShown(toasts')
           /\ route' = route /\ route = <<"home">>
           /\ selectedFile' = selectedFile /\ selectedFile \in Files
           /\ ~uploading'
           /\ RequestsIn(netLog') = RequestsIn(netLog)
           /\ Len(netLog') = Len(netLog) + 1
      /\ (~uploading /\ RequestsIn(netLog') # RequestsIn(netLog)) =>
           lastOp'.op = "handleUpload" ]_vars

\* the analysis failed and the user uploaded again
C5_Witness ==
  /\ \E i \in 1..Len(netLog) :
       /\ netLog[i].dir = "resp" /\ ~netLog[i].ok /\ Len(netLog[i].path) = 2
       /\ i < Len(netLog)
       /\ netLog[i + 1].dir = "req" /\ netLog[i + 1].path = <<"upload">>
  /\ selectedFile \in Files

(***************************************************************************)
(* Properties of audio playback                                            *)
(***************************************************************************)
Sounding(c) == clips[c].st \in {"starting", "playing"}
SoundingClips == { c \in 1..Len(clips) : Sounding(c) }

\* C1: in every reachable state of the editor at most one audio clip is playing
\* (counting a clip whose play() has been called and not yet settled as playing).
C1_AtMostOnePlaying == Cardinality(SoundingClips) <= 1

\* a second clip plays after the first one, which had been playing, was stopped
C1_Witness ==
  /\ Len(clips) >= 2
  /\ clips[1].st = "paused"
  /\ clips[2].st = "playing"
  /\ currentAudio = 2

\* C2: a play request made while a clip is tracked pauses that clip, resets its
\* position to 0, and only then constructs the new clip and starts it.
C2_StopBeforeStart ==
  [][ (Len(clips') = Len(clips) + 1 /\ currentAudio # NoAudio) =>
        /\ Len(mediaCalls') >= 4
        /\ SubSeq(mediaCalls', 1, 4) =
             << <<"pause", currentAudio>>, <<"seek0", currentAudio>>,
                <<"new", Len(clips) + 1>>, <<"play", Len(clips) + 1>> >>
        /\ clips'[currentAudio].st \notin {"starting", "playing"}
        /\ clips'[Len(clips) + 1].st = "starting" ]_vars

\* a play request found a playing clip tracked
C2_Witness ==
  /\ Len(mediaCalls) >= 4
  /\ mediaCalls[1] = <<"pause", 1>>
  /\ mediaCalls[4] = <<"play", 2>>
  /\ clips[1].st = "paused"
  /\ currentAudio = 2

(***************************************************************************)
(* Properties of scene editing                                             *)
(***************************************************************************)
SaveSuccessToast == << Toast("success", "Scene updated successfully!") >>
SaveErrorToast == << Toast("error", "Failed to save scene") >>

\* this step is the successful completion of save t in the mounted editor
SaveSucceeds(t) ==
  /\ Mounted
  /\ t \in saveTasks
  /\ t \notin saveTasks'
  /\ toasts' = SaveSuccessToast

\* scene b is scene a with at most its description changed
SameButDescription(a, b) == [b EXCEPT !.description = a.description] = a

\* C6: a successful save of scene X keeps the length and the order of the scene
\* list, leaves every other scene unchanged, and changes no field of X other
\* than its description.
C6_SaveChangesOnlyDescription ==
  [][ \A t \in saveTasks :
        SaveSucceeds(t)
        => /\ Len(scenes') = Len(scenes)
           /\ \A k \in 1..Len(scenes) :
                IF scenes[k].id = t.sceneId
                THEN SameButDescription(scenes[k], scenes'[k])
                ELSE scenes'[k] = scenes[k] ]_vars

\* this step leaves edit mode without being the completion of a save
CancelStep ==
  /\ Mounted
  /\ editingScene # NoScene
  /\ editingScene' = NoScene
  /\ toasts' # SaveSuccessToast

\* C7: cancelling an edit sends no request and changes nothing but the edit
\* mode: the scene list, with the stored description of the edited scene, the
\* draft, the saves in flight and the rest of the page are as they were.
C7_CancelOnlyLeavesEditMode ==
  [][ CancelStep
      => /\ sent' = <<>>
         /\ toasts' = <<>>
         /\ UNCHANGED <<scenes, project, loading, loads, route, editText, saving,
                        saveTasks, currentAudio, clips>> ]_vars

\* an edit was cancelled while the save made from it is still in flight: the
\* list still holds what the server sent
C7_Witness ==
  /\ Mounted
  /\ projectChanges = 0
  /\ editingScene = NoScene
  /\ saving
  /\ \E t \in saveTasks : t.editText = "c"
  /\ sent = <<>>
  /\ Len(scenes) = MaxScenes
  /\ scenes = ServerScenes("p1", MaxScenes)

\* this step is the failure of a save in the mounted editor
SaveFailsStep ==
  /\ Mounted
  /\ saveTasks' # saveTasks
  /\ toasts' = SaveErrorToast

\* C8: when a save fails the editor shows an error, keeps the edit mode and the
\* draft as they are, leaves the scene list unchanged, sends nothing by itself,
\* and the save button is enabled again.
C8_FailedSaveKeepsDraft ==
  [][ SaveFailsStep
      => /\ editingScene' = editingScene
         /\ editText' = editText
         /\ scenes' = scenes
         /\ ~saving'
         /\ sent' = <<>>
         /\ ErrorShown(toasts') ]_vars

\* a save of the draft "c" has just failed: the scene is still being edited, the
\* draft is still "c", its stored description is not, and the button is enabled
C8_Witness ==
  /\ Mounted
  /\ toasts = SaveErrorToast
  /\ saveTasks = {}
  /\ ~saving
  /\ editText = "c"
  /\ \E k \in 1..Len(scenes) :
       /\ scenes[k].id = editingScene
       /\ scenes[k].description # "c"

(***************************************************************************)
(* Properties of the export                                                *)
(***************************************************************************)
\* this step is a firing of timer t
Ticks(t) ==
  /\ t \in intervals
  /\ [t EXCEPT !.fired = @ + 1] \in intervals'

\* this step is a timer tick during an export shown by the mounted editor
TickStep ==
  /\ Mounted
  /\ exporting
  /\ \E t \in intervals : Ticks(t)

\* C9 as stated: during an export the progress indicator strictly increases
\* at every timer tick.
C9_IncreasesAtEveryTick ==
  [][ TickStep => exportProgress' > exportProgress ]_vars

\* C9 amended: at a timer tick the progress indicator never decreases and never
\* passes 95; it strictly increases at every tick while it is below 95, and
\* stays at 95 once it is there.
C9_IncreasesUntilCap ==
  [][ TickStep
      => /\ exportProgress' >= exportProgress
         /\ exportProgress' <= Pct(Cap)
         /\ (exportProgress < Pct(Cap) => exportProgress' > exportProgress)
         /\ (exportProgress = Pct(Cap) => exportProgress' = Pct(Cap)) ]_vars

\* an export whose request is still unanswered after 10.5 s: the timer of a
\* 5 s estimate has fired 21 times and the indicator stands at 95
C9_Witness ==
  /\ Mounted
  /\ exporting
  /\ exportProgress = Pct(Cap)
  /\ \E t \in intervals : t.est = 5 /\ t.fired >= 21
  /\ \E x \in exportTasks : x.pc = "post"

\* C10: a running progress timer always belongs to an export whose request is
\* still unanswered, before and after every step, and only such a timer
\* fires: once the request has succeeded or failed its timer is cancelled for
\* good, and with no request in flight no timer is running.
C10_TimerCancelledOnSettle ==
  [][ /\ \A t \in intervals' :
           \E x \in exportTasks' : x.id = t.id /\ x.pc = "post"
      /\ \A t \in intervals :
           Ticks(t) => \E x \in exportTasks : x.id = t.id /\ x.pc = "post" ]_vars

\* the second export has just failed after its timer had fired: the timer was
\* cleared, and nothing is running or in flight
C10_Witness ==
  /\ Mounted
  /\ exportClicks = 2
  /\ exportTasks = {}
  /\ intervals = {}
  /\ ~exporting
  /\ exportProgress = 0
  /\ ErrorShown(toasts)
  /\ \E i \in 1..Len(timerCalls) :
       /\ timerCalls[i].op = "clearInterval"
       /\ timerCalls[i].timer = 2
       /\ timerCalls[i].fired >= 2

(***************************************************************************)
(* Properties of the export dialog                                         *)
(***************************************************************************)
\* C11: while exporting is true in the mounted editor, the export dialog is
\* shown and the selected format is the one the export request in progress
\* was sent with.
C11_DialogHeldWhileExporting ==
  (Mounted /\ exporting)
  => /\ showExportDialog
     /\ \A x \in exportTasks : x.format = exportFormat

\* export x enters position pc in this step, coming from position from
Enters(x, pc, from) ==
  /\ x.pc = pc
  /\ x \in exportTasks'
  /\ x \notin exportTasks
  /\ [x EXCEPT !.pc = from] \in exportTasks

\* export x is new at position pc after this step
NewAt(x, pc) == x \in exportTasks' /\ x \notin exportTasks /\ x.pc = pc

\* C12: the steps of a successful export come in this order: the answer to the
\* export request sets the indicator to 100 and sends nothing; only then, after
\* the pause, the download of the returned reference is requested; only an
\* export whose download has been requested sets the auto-close timeout; and
\* when that timeout fires the dialog is closed and the indicator and the
\* estimate are 0.
C12_SuccessOrder ==
  [][ /\ \A x \in exportTasks' :
           NewAt(x, "pause")
           => /\ Enters(x, "pause", "post")
              /\ Mounted => exportProgress' = Pct(Complete)
              /\ sent' = <<>>
              /\ downloaded' = <<>>
              /\ \A k \in closeTimers' : k.id # x.id
      /\ \A x \in exportTasks' :
           NewAt(x, "fetch")
           => /\ Enters(x, "fetch", "pause")
              /\ sent' = << Req("GET", DownloadUrl(x.pid, x.format), "none") >>
              /\ \A k \in closeTimers' : k.id # x.id
      /\ \A k \in closeTimers' \ closeTimers :
           \E x \in exportTasks : x.id = k.id /\ x.pc = "fetch" /\ x \notin exportTasks'
      /\ downloaded' # <<>> => closeTimers' # closeTimers
      /\ \A k \in closeTimers \ closeTimers' :
           Mounted => /\ ~showExportDialog'
                      /\ exportProgress' = 0
                      /\ estimatedTime' = 0 ]_vars

\* the first export has succeeded and its file has just been handed to the
\* browser: the indicator shows 100, the dialog is open, the auto-close
\* timeout is pending
C12_Witness ==
  /\ Mounted
  /\ downloaded = << FileName(project, exportFormat) >>
  /\ exportProgress = Pct(Complete)
  /\ showExportDialog
  /\ closeTimers = { [id |-> 1, inst |-> 1] }
  /\ exportTasks = {}
  /\ ~exporting

\* this step is the failure of the export request of x in the mounted editor:
\* x leaves while still waiting for the answer to its POST
ExportFailsStep(x) ==
  /\ Mounted
  /\ x \in exportTasks
  /\ x.pc = "post"
  /\ \A y \in exportTasks' : y.id # x.id

EntersEditMode ==
  /\ Mounted
  /\ editingScene' # editingScene
  /\ editingScene' # NoScene

\* C14: entering edit mode for a scene pauses the tracked clip, resets its
\* position and clears the tracked reference, makes that scene the one in edit
\* mode with the draft equal to its current description, and sends no request.
C14_EditStopsAudioAndSeedsDraft ==
  [][ EntersEditMode
      => /\ \E k \in 1..Len(scenes) :
              /\ scenes[k].id = editingScene'
              /\ editText' = scenes[k].description
         /\ scenes' = scenes
         /\ currentAudio' = NoAudio
         /\ currentAudio # NoAudio
            => /\ Len(mediaCalls') >= 2
               /\ mediaCalls'[1] = <<"pause", currentAudio>>
               /\ mediaCalls'[2] = <<"seek0", currentAudio>>
               /\ clips'[currentAudio].st \notin {"starting", "playing"}
         /\ currentAudio = NoAudio => mediaCalls' = <<>>
         /\ sent' = <<>> ]_vars

\* Edit was clicked on the second scene while a clip was playing: the clip is
\* paused, nothing is tracked, the draft is the second scene's description
C14_Witness ==
  /\ Mounted
  /\ Len(scenes) = 2
  /\ editingScene = scenes[2].id
  /\ editText = scenes[2].description
  /\ editText # scenes[1].description
  /\ currentAudio = NoAudio
  /\ Len(mediaCalls) >= 2
  /\ mediaCalls[1][1] = "pause"
  /\ mediaCalls[2] = <<"seek0", mediaCalls[1][2]>>
  /\ clips[mediaCalls[1][2]].st = "paused"

\* C15: once the editor has unmounted no clip is starting or playing,
\* whichever playAudio call created it.
C15_NothingPlaysAfterUnmount ==
  ~Mounted => SoundingClips = {}

\* the editor unmounted while the clip of the second play request was
\* playing: the cleanup paused it
C15_Witness ==
  /\ ~Mounted
  /\ Len(clips) = 2
  /\ currentAudio = 2
  /\ mediaCalls = << <<"pause", 2>> >>
  /\ clips[2].st = "paused"
  /\ \A e \in pendingEv : e[1] # 2

LoadErrorToast == << Toast("error", "Failed to load project") >>

\* this step is the end of a loadProject call of the mounted editor
LoadSettles(t) ==
  /\ Mounted
  /\ t \in loads
  /\ t \notin loads'

\* C16: a load that fails shows an error, ends loading, and sets neither
\* the project nor the scene list; the project and the scene list are only
\* ever set together, by a load both of whose fetches succeeded; so scene
\* cards are on screen only with a project that was loaded.
C16_LoadSetsBothOrNeither ==
  [][ /\ \A t \in loads :
           LoadSettles(t)
           => /\ ~loading'
              /\ \/ /\ toasts' = LoadErrorToast
                    /\ project' = project
                    /\ scenes' = scenes
                 \/ /\ toasts' = <<>>
                    /\ project' = ServerProject(t.pid)
                    /\ scenes' = ServerScenes(t.pid, Len(scenes'))
      /\ project' # project => \E t \in loads : LoadSettles(t)
      /\ (Mounted' /\ ~loading' /\ Len(scenes') > 0) => project' # NoProject ]_vars

\* the load of p2 failed in an editor that was showing p1: the error is
\* shown, and p1 and its scenes are still what is on screen
C16_Witness ==
  /\ Mounted
  /\ ProjectId = "p2"
  /\ toasts = LoadErrorToast
  /\ loads = {}
  /\ ~loading
  /\ project = ServerProject("p1")
  /\ scenes = ServerScenes("p1", MaxScenes)

(***************************************************************************)
(* Properties of the export requests                                       *)
(***************************************************************************)
\* the export requests that are unanswered
InFlight == { x \in exportTasks : x.pc = "post" }

IsExportRequest(r) == r.method = "POST" /\ r.path[1] = "export"

\* this step is a confirmation of an export
Confirms == exportClicks' = exportClicks + 1

\* each confirmation sends exactly one export request, with the format
\* selected when it was made, and nothing else sends one
OneRequestPerConfirmation ==
  /\ Confirms
     => sent' = << Req("POST", ExportPath(ProjectId), [format |-> exportFormat]) >>
  /\ (\E i \in 1..Len(sent') : IsExportRequest(sent'[i])) => Confirms
  /\ InFlight' \ InFlight # {} => Confirms

\* C17 as stated: each confirmation sends exactly one export request with the
\* format selected when it was made, and at most one export request is
\* unanswered at any time.
C17_OneExportInFlight ==
  [][ /\ OneRequestPerConfirmation
      /\ Cardinality(InFlight') <= 1 ]_vars

\* C17 amended: each confirmation sends exactly one export request with the
\* format selected when it was made, and of the export requests sent by one
\* EditorPage instance at most one is unanswered at any time.
C17_OneExportInFlightPerEditor ==
  [][ /\ OneRequestPerConfirmation
      /\ \A x, y \in InFlight' : x.inst = y.inst => x = y ]_vars

\* the second export of an editor, confirmed with AVI selected after its
\* first export was answered: one request, for AVI, is unanswered
C17_Witness ==
  /\ Mounted
  /\ exporting
  /\ sent = << Req("POST", ExportPath("p1"), [format |-> "avi"]) >>
  /\ \E x \in InFlight : InFlight = {x} /\ x.id = 2 /\ x.inst = 1 /\ x.format = "avi"

(***************************************************************************)
(* Properties of the busy flags                                            *)
(***************************************************************************)
\* C18: the step in which an upload, a load, a save or an export ends, with
\* success or with failure, leaves the busy flag of the page that started it
\* false: uploading, loading, saving, exporting.
C18_BusyFlagsCleared ==
  [][ /\ (uploadTask # IdleUpload /\ uploadTask' = IdleUpload) => ~uploading'
      /\ \A t \in loads \ loads' : Live(t.inst) => ~loading'
      /\ \A t \in saveTasks \ saveTasks' : Live(t.inst) => ~saving'
      /\ \A x \in exportTasks :
           (Live(x.inst) /\ \A y \in exportTasks' : y.id # x.id) => ~exporting' ]_vars

\* an editor whose export failed and whose save has just failed: nothing is
\* pending, no flag is set, and the scene is still being edited
C18_Witness ==
  /\ Mounted
  /\ toasts = SaveErrorToast
  /\ exportClicks >= 1
  /\ exportTasks = {}
  /\ closeTimers = {}
  /\ saveTasks = {}
  /\ loads = {}
  /\ editingScene # NoScene
  /\ ~loading /\ ~saving /\ ~exporting


\* C19: in every state of a mounted editor, a tracked clip (currentAudio not
\* null) is starting or playing.
C19_TrackedIsSounding ==
  (Mounted /\ currentAudio # NoAudio) => Sounding(currentAudio)


\* the export request of the mounted editor is unanswered
RequestPending == \E x \in exportTasks : x.pc = "post" /\ Live(x.inst)

\* this step is the successful answer to an export request of the mounted editor
SucceedsStep ==
  \E x \in exportTasks :
    /\ x.pc = "post"
    /\ Live(x.inst)
    /\ [x EXCEPT !.pc = "pause"] \in exportTasks'

\* C20: whatever the number of scenes, the indicator is at or below 95 after
\* every step that leaves the export request unanswered, a timer tick leaves
\* it below 100, and it becomes 100 only in the step in which the request is
\* answered with success.
C20_TimerNeverCompletes ==
  [][ /\ RequestPending' => exportProgress' <= Pct(Cap)
      /\ (\E t \in intervals : Ticks(t)) => exportProgress' < Pct(Complete)
      /\ (exportProgress' = Pct(Complete) /\ exportProgress # Pct(Complete))
           => SucceedsStep ]_vars

\* a request answered with success after its timer had fired for 11 s: the
\* indicator, held at 95 by the timer, has just been set to 100
C20_Witness ==
  /\ Mounted
  /\ exporting
  /\ exportProgress = Pct(Complete)
  /\ \E x \in exportTasks : x.pc = "pause"
  /\ \E i \in 1..Len(timerCalls) :
       /\ timerCalls[i].op = "clearInterval"
       /\ timerCalls[i].fired = MaxTicks


(***************************************************************************)
(* Properties of the export's messages and of concurrent responses         *)
(***************************************************************************)
\* the message an export failure is to show: the detail when there is one,
\* else the transport message when there is one, else the default text; a
\* string of more than 100 characters is replaced by the generic message
PresentText(v) == v # Undefined /\ ~(v.t = "string" /\ v.length = 0)

ChosenMessage(detail, message) ==
  IF PresentText(detail) THEN detail
  ELSE IF PresentText(message) THEN message
  ELSE JsString("Failed to export video", 22)

ExpectedExportError(detail, message) ==
  LET chosen == ChosenMessage(detail, message) IN
  IF chosen.t # "string" THEN "[object Object]"
  ELSE IF chosen.length <= 100 THEN chosen.text
  ELSE "Video export failed. Please check if all scenes have valid audio."

\* C21: a failed export shows one error toast, whose text is the detail, else
\* the transport message, else the default text, as it is when it has at most
\* 100 characters and the generic message when it is a longer string.
C21_ExportErrorMessage ==
  [][ \A x \in exportTasks :
        ExportFailsStep(x)
        => \A detail \in ErrorDetails, message \in ErrorMessages :
             ExportFail(x, detail, message)
             => toasts' = << Toast("error", ExpectedExportError(detail, message)) >> ]_vars

\* an export has just failed with a detail of exactly 100 characters, which
\* is shown as it is
C21_Witness ==
  /\ Mounted
  /\ ~exporting
  /\ exportTasks = {}
  /\ exportClicks >= 1
  /\ exportProgress = 0
  /\ toasts = << Toast("error", "detail of 100 characters") >>


\* this step sends the request of save t
SendsSave(t) ==
  /\ t \notin saveTasks
  /\ t \in saveTasks'

\* C22: a save request carries the draft of the moment it is sent, and when it
\* succeeds the scene's local description is that text, whatever the draft
\* has become in the meantime.
C22_SavedTextIsSentText ==
  [][ /\ \A t \in saveTasks' :
           SendsSave(t)
           => sent' = << Req("PUT", SavePath(t.sceneId), [description |-> t.editText]) >>
      /\ \A t \in saveTasks :
           SaveSucceeds(t)
           => \E k \in 1..Len(scenes') :
                /\ scenes'[k].id = t.sceneId
                /\ scenes'[k].description = t.editText ]_vars

\* the save of the draft "c" for the first scene has just succeeded; the draft
\* was changed to "b" while the request was in flight
C22_Witness ==
  /\ Mounted
  /\ toasts = SaveSuccessToast
  /\ saveTasks = {}
  /\ Len(scenes) >= 1
  /\ scenes[1].description = "c"
  /\ editText = "b"


\* this step runs the onended, onerror or catch callback of clip c
HandlesEventOf(c) ==
  \E e \in pendingEv : e[1] = c /\ e \notin pendingEv'

\* C23: when the callback of a clip runs while a newer clip is tracked, the
\* newer clip stays tracked and goes on as it was.
C23_StaleEventSparesNewerClip ==
  [][ \A c \in 1..Len(clips) :
        (Mounted /\ HandlesEventOf(c) /\ currentAudio # NoAudio /\ currentAudio > c)
        => /\ currentAudio' = currentAudio
           /\ clips'[currentAudio].st = clips[currentAudio].st ]_vars


\* C24: a successful save of a scene that is no longer the one in edit mode
\* leaves the edit mode and the draft as they are.
C24_SaveSparesOtherEditSession ==
  [][ \A t \in saveTasks :
        (SaveSucceeds(t) /\ editingScene # t.sceneId)
        => /\ editingScene' = editingScene
           /\ editText' = editText ]_vars


\* this step is the firing of the auto-close timeout k in the editor that set it
AutoCloses(k) ==
  /\ k \in closeTimers
  /\ k \notin closeTimers'
  /\ Live(k.inst)

\* C25: when the auto-close timeout of an export fires while a later export
\* of the same editor is in flight, the dialog and the progress indicator are
\* left as they are.
C25_AutoCloseSparesLaterExport ==
  [][ \A k \in closeTimers :
        (AutoCloses(k) /\ \E x \in exportTasks : x.id > k.id /\ x.inst = k.inst)
        => /\ showExportDialog' = showExportDialog
           /\ exportProgress' = exportProgress ]_vars


\* the saves of scene id that succeed in this step
SucceedingSaves(id) == { t \in saveTasks : SaveSucceeds(t) /\ t.sceneId = id }

\* C26: on a loaded project a step changes the description of a scene only by
\* a successful save of that scene, which sets it to the text that save sent;
\* every other scene keeps its description, and the list keeps its scenes.
\* Starting from the loaded descriptions, the description of a scene is
\* therefore the text of its most recent successful save, or the loaded one.
C26_DescriptionIsLastSave ==
  [][ (Mounted /\ ~loading /\ Mounted' /\ ~loading')
      => /\ Len(scenes') = Len(scenes)
         /\ \A k \in 1..Len(scenes) :
              /\ scenes'[k].id = scenes[k].id
              /\ IF SucceedingSaves(scenes[k].id) # {}
                 THEN \A t \in SucceedingSaves(scenes[k].id) :
                        scenes'[k].description = t.editText
                 ELSE scenes'[k].description = scenes[k].description ]_vars

\* the second scene has just been saved as "c" after the first had been saved
\* as "c": both hold their saved text
C26_Witness ==
  /\ Mounted
  /\ ~loading
  /\ toasts = SaveSuccessToast
  /\ saveTasks = {}
  /\ Len(scenes) = 2
  /\ scenes[1].description = "c"
  /\ scenes[2].description = "c"
  /\ editText = "c"


\* C27: when the last of the loads settles with success after another load
\* has succeeded for a different project id, the project and the scene list
\* held are those of the project id the editor is showing.
C27_LatestProjectWins ==
  [][ \A t \in loads :
        ( /\ LoadSettles(t)
          /\ loads' = {}
          /\ toasts' = <<>>
          /\ project # NoProject
          /\ project.id # t.pid )
        => /\ project' = ServerProject(ProjectId')
           /\ scenes' = ServerScenes(ProjectId', Len(scenes')) ]_vars


DownloadErrorToast == << Toast("error", "Download failed. Please try again.") >>

\* this step is the failure of the download of export x in the editor that
\* started it
DownloadFailsStep(x) ==
  /\ x \in exportTasks
  /\ x.pc = "fetch"
  /\ Live(x.inst)
  /\ \A y \in exportTasks' : y.id # x.id
  /\ toasts' = DownloadErrorToast

\* what C28 says of a failed download but for the value of the indicator: one
\* error toast, nothing downloaded and nothing sent, the estimate, the dialog
\* and the format as they were, the auto-close timeout set, exporting false
DownloadFailureHandled(x) ==
  /\ Len(toasts') = 1
  /\ ErrorShown(toasts')
  /\ downloaded' = <<>>
  /\ sent' = <<>>
  /\ estimatedTime' = estimatedTime
  /\ showExportDialog' = showExportDialog
  /\ exportFormat' = exportFormat
  /\ [id |-> x.id, inst |-> x.inst] \in closeTimers'
  /\ ~exporting'

\* when the auto-close timeout fires in its editor the dialog is closed
AutoCloseCloses ==
  \A k \in closeTimers : AutoCloses(k) => ~showExportDialog'

\* C28 as stated: a failed download is handled as above and leaves the
\* indicator at 100.
C28_DownloadFailureKeeps100 ==
  [][ /\ \A x \in exportTasks :
           DownloadFailsStep(x)
           => DownloadFailureHandled(x) /\ exportProgress' = Pct(Complete)
      /\ AutoCloseCloses ]_vars

\* C28 amended: a failed download is handled as above and leaves the
\* indicator as it is; between the successful answer, which sets it to 100,
\* and the end of the download only the auto-close timeout of an earlier
\* export changes the indicator.
C28_DownloadFailureLeavesProgress ==
  [][ /\ \A x \in exportTasks :
           DownloadFailsStep(x)
           => DownloadFailureHandled(x) /\ exportProgress' = exportProgress
      /\ \A x \in exportTasks' :
           (x.pc = "pause" /\ Live(x.inst) /\ x \notin exportTasks)
           => exportProgress' = Pct(Complete)
      /\ \A x \in exportTasks :
           (x.pc \in {"pause", "fetch"} /\ Live(x.inst) /\ exportProgress' # exportProgress)
           => \E k \in closeTimers : AutoCloses(k) /\ k.id < x.id
      /\ AutoCloseCloses ]_vars

\* the download of the first export has just failed: the error is shown, the
\* indicator is still at 100 in the open dialog, the auto-close timeout is
\* set and the confirm button is enabled again
C28_Witness ==
  /\ Mounted
  /\ toasts = DownloadErrorToast
  /\ exportClicks = 1
  /\ exportTasks = {}
  /\ closeTimers = { [id |-> 1, inst |-> 1] }
  /\ exportProgress = Pct(Complete)
  /\ estimatedTime > 0
  /\ showExportDialog
  /\ ~exporting
====
